---- MODULE Spec2Model ----
(***************************************************************************)
(* A model of the dotbot Brew plugin (src/brew.py).                        *)
(*                                                                         *)
(* The host calls can_handle(directive) and handle(directive, data).       *)
(* handle shells out to the package manager: every subprocess.run is one   *)
(* step of the model, and its exit status is chosen by the environment.    *)
(* A Python string is a sequence of fragments; a fragment " " is a blank,  *)
(* so that f-string formatting and the shell's word splitting are both     *)
(* computed rather than assumed.                                           *)
(*                                                                         *)
(* cmds, log, call and ret describe the most recent call of the host:      *)
(* the subprocesses it ran, the log lines it emitted, and how it ended.    *)
(*                                                                         *)
(* world says how the environment answers.  In world "any" every           *)
(* subprocess may exit with any status.  In world "brew" the version query *)
(* of a package exits zero exactly when the package is in `installed`, and *)
(* an install that exits zero puts it there.  In world "repeat" a handle   *)
(* call that repeats the arguments of the handle call before it meets the  *)
(* same exit statuses, and prev keeps that earlier call for comparison.    *)
(***************************************************************************)
EXTENDS Naturals, Sequences, FiniteSets

VARIABLES is_macos, homebrew_path, homebrew_envs,
          pc, call, idx, cmds, log, ret,
          world, installed, prev

vars == <<is_macos, homebrew_path, homebrew_envs, pc, call, idx, cmds, log, ret,
          world, installed, prev>>

platform_vars == <<is_macos, homebrew_path, homebrew_envs>>

(* ---------------------------------------------------------------- bounds *)

\* The longest data list the host passes.
MaxLen == 3

\* The longest data list the host passes in the worlds that compare two calls.
MaxLenTwice == 2

\* The names that occur in data lists: taps, packages, bundle file paths.
Names == {"a", "b"}

\* Exit statuses of a subprocess: zero and one non-zero status.
ExitCodes == {0, 1}

RECURSIVE ListsUpTo(_)
ListsUpTo(n) ==
    IF n = 0 THEN {<<>>}
    ELSE LET shorter == ListsUpTo(n - 1)
         IN  shorter \cup {Append(l, x) : l \in {s \in shorter : Len(s) = n - 1}, x \in Names}

DataLists == ListsUpTo(MaxLen)

(* ------------------------------------------------------ class attributes *)

brew_directive == "brew"

brewfile_directive == "brewfile"

cask_directive == "cask"

tap_directive == "tap"

install_url == "https://raw.githubusercontent.com/Homebrew/install/HEAD/install.sh"

\* A directive name the plugin does not know, standing for every other name.
other_directive == "link"

Directives ==
    {tap_directive, brew_directive, cask_directive, brewfile_directive, other_directive}

\* The platforms the class body distinguishes: sys.platform and machine().
Platforms ==
    { [sys |-> "darwin", machine |-> "x86_64"],
      [sys |-> "darwin", machine |-> "arm64"],
      [sys |-> "linux",  machine |-> "x86_64"] }

PlatformIsMacos(p) == p.sys = "darwin"

PlatformHomebrewPath(p) ==
    IF p.sys = "darwin"
    THEN IF p.machine = "arm64" THEN "/opt/homebrew" ELSE "/usr/local"
    ELSE "/home/linuxbrew/.linuxbrew"

\* The env vars that `brew shellenv` returns, each value a string of fragments.
HomebrewEnvs(path) ==
    [ HOMEBREW_PREFIX     |-> <<path>>,
      HOMEBREW_CELLAR     |-> <<path, "/Cellar">>,
      HOMEBREW_REPOSITORY |-> <<path>>,
      PATH                |-> <<path, "/bin:", path, "/sbin${PATH+:$PATH}">>,
      MANPATH             |-> <<path, "/share/man${MANPATH+:$MANPATH}:">>,
      INFOPATH            |-> <<path, "/share/info:${INFOPATH:-}">> ]

(* --------------------------------------------------------------- strings *)

\* f"{a} {b} ...": the parts joined by one blank each; an empty part adds nothing
\* between its two blanks.
RECURSIVE Join(_)
Join(parts) ==
    IF Len(parts) = 0 THEN <<>>
    ELSE IF Len(parts) = 1 THEN Head(parts)
    ELSE Head(parts) \o <<" ">> \o Join(Tail(parts))

\* The shell's word splitting: the maximal runs of non-blank fragments.
RECURSIVE SplitFrom(_, _, _)
SplitFrom(s, word, acc) ==
    IF Len(s) = 0
    THEN IF word = <<>> THEN acc ELSE Append(acc, word)
    ELSE IF Head(s) = " "
         THEN SplitFrom(Tail(s), <<>>, IF word = <<>> THEN acc ELSE Append(acc, word))
         ELSE SplitFrom(Tail(s), Append(word, Head(s)), acc)

Words(s) == SplitFrom(s, <<>>, <<>>)

\* The words of a command written without variables, one fragment each.
W(seq) == [i \in 1..Len(seq) |-> <<seq[i]>>]

\* The expression _run_cmd puts in front of a command: eval "$({envs})" &&
EnvPrefix == <<"eval", " ", "\"$(_homebrew_envs)\"", " ", "&&", " ">>

HasEnvPrefix(line) ==
    /\ Len(line) >= Len(EnvPrefix)
    /\ SubSeq(line, 1, Len(EnvPrefix)) = EnvPrefix

AfterEnv(line) ==
    IF HasEnvPrefix(line) THEN SubSeq(line, Len(EnvPrefix) + 1, Len(line)) ELSE line

(* ------------------------------------------------------------ can_handle *)

can_handle_cask_everywhere(directive) ==
    directive \in {tap_directive, brew_directive, brewfile_directive, cask_directive}

can_handle(directive) ==
    LET directives == {tap_directive, brew_directive, brewfile_directive}
                        \cup (IF is_macos THEN {cask_directive} ELSE {})
    IN  directive \in directives

(* -------------------------------------------------------------- _run_cmd *)

run_cmd_never_envs(cmd, capture_output, include_envs) ==
    [line |-> cmd, capture |-> capture_output]

\* The string handed to subprocess.run and the capture_output flag.
run_cmd(cmd, capture_output, include_envs) ==
    [ line    |-> IF include_envs THEN EnvPrefix \o cmd ELSE cmd,
      capture |-> capture_output ]

(* -------------------------------------------------------------- commands *)

hash_brew_cmd == run_cmd(<<"hash", " ", "brew">>, FALSE, TRUE)

bootstrap_cmd ==
    run_cmd(<<"/bin/bash", " ", "-c", " ", "\"$(curl -fsSL ", install_url, ")\"">>,
            TRUE, FALSE)

update_cmd == run_cmd(<<"brew", " ", "update">>, TRUE, TRUE)

cask_tap_cmd == run_cmd(<<"brew", " ", "tap", " ", "homebrew/cask">>, TRUE, TRUE)

tap_cmd(tap) == run_cmd(<<"brew", " ", "tap", " ", tap>>, TRUE, TRUE)

bundle_cmd(brew_file) ==
    run_cmd(<<"brew", " ", "bundle", " ", "--file=", brew_file>>, TRUE, TRUE)

\* The install_cmd handle passes to _process_data.
InstallCmd(directive) ==
    IF directive = cask_directive
    THEN <<"brew", " ", "install", " ", "--cask">>
    ELSE <<"brew", " ", "install">>

cask_flag(install_cmd) ==
    IF install_cmd # <<"brew", " ", "install">> THEN <<"--cask">> ELSE <<>>

install_type_always_formulae(install_cmd) == "formulae"

install_type(install_cmd) ==
    IF \E i \in 1..Len(install_cmd) : install_cmd[i] = "--cask"
    THEN "casks" ELSE "formulae"

ls_cmd(install_cmd, package) ==
    run_cmd(Join(<<<<"brew", " ", "ls", " ", "--versions">>,
                   cask_flag(install_cmd), <<package>>>>), TRUE, TRUE)

inst_cmd(install_cmd, package) ==
    run_cmd(Join(<<install_cmd, cask_flag(install_cmd), <<package>>>>), TRUE, TRUE)

(* ------------------------------------------------------------------- log *)

Line(level, text) == [level |-> level, text |-> text]

(* -------------------------------------------------------- results of a call *)

NoRet == [kind |-> "none", value |-> FALSE, exc |-> ""]

Return(b) == [kind |-> "return", value |-> b, exc |-> ""]

\* A match statement that matches no case: handle falls off its end.
ReturnNone == [kind |-> "return_none", value |-> FALSE, exc |-> ""]

Raise(e) == [kind |-> "raise", value |-> FALSE, exc |-> e]

NoCall == [op |-> "none", directive |-> "", data |-> <<>>]

\* Where control goes after a step: the next subprocess to run (pc, idx) or the
\* end of the call (ret), and the log lines written on the way.
Goto(p, i, lines) == [pc |-> p, idx |-> i, ret |-> NoRet, log |-> lines]

End(r, lines) == [pc |-> "idle", idx |-> 0, ret |-> r, log |-> lines]

(* ------------------------------------------------------- control flow *)

WithLog(lines, ctl) == [ctl EXCEPT !.log = lines \o @]

\* The subprocess a handler's loop runs for each item.
LoopPc(directive) ==
    CASE directive = tap_directive      -> "tap"
      [] directive = brew_directive     -> "ls"
      [] directive = cask_directive     -> "ls"
      [] directive = brewfile_directive -> "bundle"
      [] OTHER                          -> "none"

\* The value a handler returns to handle, which returns it to the host; for the
\* brew and cask directives _process_data logs its summary line on the way.
Finish_AlwaysTrue(directive, success) ==
    IF directive \in {brew_directive, cask_directive}
    THEN End(Return(TRUE),
             <<Line("info", <<"All brew ", install_type(InstallCmd(directive)),
                              " have been installed">>)>>)
    ELSE End(Return(TRUE), <<>>)

Finish(directive, success) ==
    IF directive \in {brew_directive, cask_directive}
    THEN IF success
         THEN End(Return(success),
                  <<Line("info", <<"All brew ", install_type(InstallCmd(directive)),
                                   " have been installed">>)>>)
         ELSE End(Return(success),
                  <<Line("error", <<"Some brew ", install_type(InstallCmd(directive)),
                                    " were not installed">>)>>)
    ELSE End(Return(success), <<>>)

\* The head of a handler's for loop, about to take item i: the loop body's
\* subprocess for item i, or the return True after the loop.
LoopAt(directive, data, i) ==
    IF i <= Len(data) THEN Goto(LoopPc(directive), i, <<>>) ELSE Finish(directive, TRUE)

dispatch_from_second(directive, data) ==
    IF LoopPc(directive) = "none" THEN End(ReturnNone, <<>>) ELSE LoopAt(directive, data, 2)

\* The match statement of handle.
dispatch(directive, data) ==
    IF LoopPc(directive) = "none" THEN End(ReturnNone, <<>>) ELSE LoopAt(directive, data, 1)

after_bootstrap_always_cask_tap(directive, data) == Goto("cask_tap", 0, <<>>)

\* After the bootstrap check: the macOS tap of homebrew/cask, then the match.
after_bootstrap(directive, data) ==
    IF is_macos THEN Goto("cask_tap", 0, <<>>) ELSE dispatch(directive, data)

handle_entry_nocheck(directive, data) == Goto("hash", 0, <<>>)

handle_entry_cached(directive, data) ==
    IF ~can_handle(directive) THEN End(Raise("ValueError"), <<>>)
    ELSE IF call.op = "handle" /\ ret.kind = "return"
         THEN after_bootstrap(directive, data)
         ELSE Goto("hash", 0, <<>>)

\* The first statement of handle.
handle_entry(directive, data) ==
    IF ~can_handle(directive) THEN End(Raise("ValueError"), <<>>) ELSE Goto("hash", 0, <<>>)

after_hash(directive, data, e) ==
    IF e # 0
    THEN Goto("bootstrap", 0, <<Line("info", <<"Brew not found, installing">>)>>)
    ELSE after_bootstrap(directive, data)

after_bootstrap_install_update_anyway(directive, data, e) ==
    IF e # 0
    THEN Goto("update", 0, <<Line("warning", <<"Brew could not be installed">>)>>)
    ELSE Goto("update", 0, <<Line("info", <<"Updating brew">>)>>)

after_bootstrap_install(directive, data, e) ==
    IF e # 0
    THEN WithLog(<<Line("warning", <<"Brew could not be installed">>)>>,
                 after_bootstrap(directive, data))
    ELSE Goto("update", 0, <<Line("info", <<"Updating brew">>)>>)

after_update(directive, data, e) ==
    IF e # 0
    THEN WithLog(<<Line("warning", <<"Brew could not be updated">>)>>,
                 after_bootstrap(directive, data))
    ELSE after_bootstrap(directive, data)

\* _run_cmd("brew tap homebrew/cask") stands outside any try statement.
after_cask_tap(directive, data, e) ==
    IF e # 0 THEN End(Raise("CalledProcessError"), <<>>) ELSE dispatch(directive, data)

after_tap_continue(directive, data, i, e) ==
    IF e # 0
    THEN WithLog(<<Line("warning", <<"Failed to tap [", data[i], "] - ", "CalledProcessError">>)>>,
                 LoopAt(directive, data, i + 1))
    ELSE LoopAt(directive, data, i + 1)

after_tap(directive, data, i, e) ==
    IF e # 0
    THEN End(Return(FALSE),
             <<Line("warning", <<"Failed to tap [", data[i], "] - ", "CalledProcessError">>)>>)
    ELSE LoopAt(directive, data, i + 1)

after_ls_always_install(directive, data, i, e) ==
    Goto("install", i, <<Line("info", <<"Installing ", data[i]>>)>>)

after_ls(directive, data, i, e) ==
    IF e # 0
    THEN Goto("install", i, <<Line("info", <<"Installing ", data[i]>>)>>)
    ELSE LoopAt(directive, data, i + 1)

after_install_continue(directive, data, i, e) ==
    IF e # 0
    THEN WithLog(<<Line("warning", <<"Failed to install [", data[i], "] - ", "CalledProcessError">>)>>,
                 LoopAt(directive, data, i + 1))
    ELSE LoopAt(directive, data, i + 1)

after_install_silent(directive, data, i, e) ==
    IF e # 0 THEN Finish(directive, FALSE) ELSE LoopAt(directive, data, i + 1)

after_install(directive, data, i, e) ==
    IF e # 0
    THEN WithLog(<<Line("warning", <<"Failed to install [", data[i], "] - ", "CalledProcessError">>)>>,
                 Finish(directive, FALSE))
    ELSE LoopAt(directive, data, i + 1)

after_bundle_continue(directive, data, i, e) ==
    IF e # 0
    THEN WithLog(<<Line("warning", <<"Failed to install file [", data[i], "] - ", "CalledProcessError">>)>>,
                 LoopAt(directive, data, i + 1))
    ELSE LoopAt(directive, data, i + 1)

after_bundle(directive, data, i, e) ==
    IF e # 0
    THEN End(Return(FALSE),
             <<Line("warning", <<"Failed to install file [", data[i], "] - ", "CalledProcessError">>)>>)
    ELSE LoopAt(directive, data, i + 1)

(* ----------------------------------------------------------- environment *)

\* What the package manager can have installed: formulae and casks by name.
Packages == {brew_directive, cask_directive} \X Names

\* An earlier handle call, kept for comparison with the current one.
NoPrev == [call |-> NoCall, cmds |-> <<>>, log |-> <<>>, ret |-> NoRet]

\* The call that has just ended, as the host remembers it when it makes its next
\* call.  World "brew": the last brew or cask call that returned true.  World
\* "repeat": the last handle call, with what it ran and logged.
Remember ==
    CASE world = "brew" ->
            IF call.op = "handle" /\ call.directive \in {brew_directive, cask_directive}
                 /\ ret = Return(TRUE)
            THEN [call |-> call, cmds |-> <<>>, log |-> <<>>, ret |-> ret]
            ELSE prev
      [] world = "repeat" ->
            IF call.op = "handle"
            THEN [call |-> call, cmds |-> cmds, log |-> log, ret |-> ret]
            ELSE prev
      [] OTHER -> prev

\* What the host keeps of the earlier call while handle(d, dat) runs.
Compared(d, dat) ==
    CASE world = "brew" -> Remember
      [] world = "repeat" ->
            IF Remember.call.directive = d /\ Remember.call.data = dat
            THEN Remember ELSE NoPrev
      [] OTHER -> prev

\* The data lists the host passes.
HostLists == IF world = "any" THEN DataLists ELSE ListsUpTo(MaxLenTwice)

\* The exit statuses the subprocess about to run can have.
Exits(what) ==
    CASE world = "brew" /\ what = "ls" ->
            {IF <<call.directive, call.data[idx]>> \in installed THEN 0 ELSE 1}
      [] world = "repeat" /\ prev # NoPrev /\ Len(cmds) < Len(prev.cmds) ->
            {prev.cmds[Len(cmds) + 1].exit}
      [] OTHER -> ExitCodes

\* The packages installed after a subprocess has exited with status e.
InstalledAfter(what, e) ==
    IF world = "brew" /\ what = "install" /\ e = 0
    THEN installed \cup {<<call.directive, call.data[idx]>>}
    ELSE installed

(* ----------------------------------------------------------------- steps *)

\* The state after the class body has run, before any call.
Loaded ==
    /\ \E p \in Platforms :
         /\ is_macos = PlatformIsMacos(p)
         /\ homebrew_path = PlatformHomebrewPath(p)
         /\ homebrew_envs = HomebrewEnvs(PlatformHomebrewPath(p))
    /\ pc = "idle"
    /\ call = NoCall
    /\ idx = 0
    /\ cmds = <<>>
    /\ log = <<>>
    /\ ret = NoRet
    /\ prev = NoPrev

Init ==
    /\ Loaded
    /\ world = "any"
    /\ installed = {}

InitInstalled ==
    /\ Loaded
    /\ world = "brew"
    /\ installed \in SUBSET Packages

InitRepeat ==
    /\ Loaded
    /\ world = "repeat"
    /\ installed = {}

\* One subprocess.run inside _run_cmd, with the statements around it: the log
\* lines `before`, the lowinfo line of _run_cmd, the exit status e, and then ctl.
Exec(what, c, e, before, ctl) ==
    /\ cmds' = Append(cmds, [what |-> what, pos |-> idx, line |-> c.line,
                             capture |-> c.capture, exit |-> e])
    /\ log' = log \o before \o <<Line("lowinfo", c.line)>> \o ctl.log
    /\ pc' = ctl.pc
    /\ idx' = ctl.idx
    /\ ret' = ctl.ret
    /\ installed' = InstalledAfter(what, e)
    /\ UNCHANGED <<platform_vars, call, world, prev>>

\* The host asks can_handle(d).
CanHandle ==
    /\ pc = "idle"
    /\ \E d \in Directives :
         /\ call' = [op |-> "can_handle", directive |-> d, data |-> <<>>]
         /\ ret' = Return(can_handle(d))
    /\ cmds' = <<>>
    /\ log' = <<>>
    /\ prev' = Remember
    /\ UNCHANGED <<platform_vars, pc, idx, world, installed>>

\* The host calls handle(d, dat): the directive check.
Handle ==
    /\ pc = "idle"
    /\ \E d \in Directives, dat \in HostLists :
         LET ctl == handle_entry(d, dat)
         IN  /\ call' = [op |-> "handle", directive |-> d, data |-> dat]
             /\ cmds' = <<>>
             /\ log' = ctl.log
             /\ pc' = ctl.pc
             /\ idx' = ctl.idx
             /\ ret' = ctl.ret
             /\ prev' = Compared(d, dat)
    /\ UNCHANGED <<platform_vars, world, installed>>

RunHashBrew ==
    /\ pc = "hash"
    /\ \E e \in Exits("hash") :
         Exec("hash", hash_brew_cmd, e, <<>>, after_hash(call.directive, call.data, e))

RunBootstrap ==
    /\ pc = "bootstrap"
    /\ \E e \in Exits("bootstrap") :
         Exec("bootstrap", bootstrap_cmd, e, <<>>,
              after_bootstrap_install(call.directive, call.data, e))

RunUpdate ==
    /\ pc = "update"
    /\ \E e \in Exits("update") :
         Exec("update", update_cmd, e, <<>>, after_update(call.directive, call.data, e))

RunCaskTap ==
    /\ pc = "cask_tap"
    /\ \E e \in Exits("cask_tap") :
         Exec("cask_tap", cask_tap_cmd, e, <<>>, after_cask_tap(call.directive, call.data, e))

RunTap ==
    /\ pc = "tap"
    /\ \E e \in Exits("tap") :
         Exec("tap", tap_cmd(call.data[idx]), e,
              <<Line("info", <<"Tapping ", call.data[idx]>>)>>,
              after_tap(call.directive, call.data, idx, e))

RunLsVersions ==
    /\ pc = "ls"
    /\ \E e \in Exits("ls") :
         Exec("ls", ls_cmd(InstallCmd(call.directive), call.data[idx]), e, <<>>,
              after_ls(call.directive, call.data, idx, e))

RunInstall ==
    /\ pc = "install"
    /\ \E e \in Exits("install") :
         Exec("install", inst_cmd(InstallCmd(call.directive), call.data[idx]), e, <<>>,
              after_install(call.directive, call.data, idx, e))

RunBundle ==
    /\ pc = "bundle"
    /\ \E e \in Exits("bundle") :
         Exec("bundle", bundle_cmd(call.data[idx]), e,
              <<Line("info", <<"Installing from file ", call.data[idx]>>)>>,
              after_bundle(call.directive, call.data, idx, e))

Next ==
    \/ CanHandle
    \/ Handle
    \/ RunHashBrew
    \/ RunBootstrap
    \/ RunUpdate
    \/ RunCaskTap
    \/ RunTap
    \/ RunLsVersions
    \/ RunInstall
    \/ RunBundle

Spec == Init /\ [][Next]_vars

\* The plugin with a package manager that remembers what it has installed.
SpecInstalled == InitInstalled /\ [][Next]_vars

\* The plugin with a host that repeats calls under the same exit statuses.
SpecRepeat == InitRepeat /\ [][Next]_vars

(* ------------------------------------------------------------ properties *)

\* The directives the plugin supports on this platform, as the specification
\* lists them.
SupportedDirectives ==
    {"tap", "brew", "brewfile"} \cup (IF is_macos THEN {"cask"} ELSE {})

\* A handle call has ended.
HandleEnded == call.op = "handle" /\ pc = "idle"

Ran(what) == {k \in 1..Len(cmds) : cmds[k].what = what}

RanFor(what, p) == {k \in Ran(what) : cmds[k].pos = p}

Failed(what) == {k \in Ran(what) : cmds[k].exit # 0}

BootstrapFailed == Failed("bootstrap") # {} \/ Failed("update") # {}

\* C1: a non-zero subprocess exit is never propagated out of handle: a handle
\* call with a supported directive always ends by returning a boolean, also when
\* the macOS pre-step brew tap homebrew/cask exits non-zero.
C1_NoSubprocessErrorEscapes ==
    (HandleEnded /\ call.directive \in SupportedDirectives) => ret.kind = "return"

\* C2: a failed bootstrap (install script or brew update exits non-zero) does not
\* stop the directive: a handle call with a supported directive and a non-empty
\* list still executes the command of the first item.
C2_BootstrapFailureProceeds ==
    ( /\ HandleEnded
      /\ call.directive \in SupportedDirectives
      /\ Len(call.data) > 0
      /\ BootstrapFailed )
    => \E k \in 1..Len(cmds) : cmds[k].pos = 1

\* C3: _install short-circuits: when the install subcommand of a package exits
\* non-zero it is the last subprocess of the call, the call has returned false,
\* and no version query or install was executed for a later position.
C3_InstallShortCircuits ==
    \A k \in Failed("install") :
        /\ k = Len(cmds)
        /\ pc = "idle"
        /\ ret = Return(FALSE)
        /\ \A j \in 1..Len(cmds) : cmds[j].pos <= cmds[k].pos

C3_Witness ==
    /\ Len(call.data) = 3
    /\ \E k \in Failed("install") : cmds[k].pos = 2
    /\ \E k \in Ran("install") : cmds[k].pos = 1 /\ cmds[k].exit = 0
    /\ ret = Return(FALSE)

\* C4: within one _install call, for every package: at most one version query and
\* one install; an install directly follows the failed version query of the same
\* package; a version query that exits zero is followed by no install of that
\* package; a version query that exits non-zero is followed by exactly one install
\* of it (which is the next subprocess to run while it has not run yet).
C4_QueryThenInstall ==
    call.op = "handle" =>
    \A p \in 1..Len(call.data) :
        LET Q == RanFor("ls", p)
            I == RanFor("install", p)
        IN  /\ Cardinality(Q) <= 1
            /\ Cardinality(I) <= 1
            /\ \A k \in I : /\ k > 1
                            /\ (k - 1) \in Q
                            /\ cmds[k - 1].exit # 0
            /\ \A k \in Q : cmds[k].exit = 0 => I = {}
            /\ \A k \in Q : cmds[k].exit # 0 =>
                              \/ I = {k + 1}
                              \/ (I = {} /\ k = Len(cmds) /\ pc = "install" /\ idx = p)

C4_Witness ==
    /\ HandleEnded
    /\ \E k \in RanFor("ls", 1) : cmds[k].exit = 0
    /\ \E k \in RanFor("ls", 2) : cmds[k].exit # 0
    /\ Cardinality(RanFor("install", 2)) = 1
    /\ RanFor("install", 1) = {}

\* An item of the list succeeded: its tap or bundle command exited zero, or, for a
\* package, its version query or its install exited zero.
ItemSucceeded(p) ==
    CASE call.directive = "tap" ->
            \E k \in RanFor("tap", p) : cmds[k].exit = 0
      [] call.directive = "brewfile" ->
            \E k \in RanFor("bundle", p) : cmds[k].exit = 0
      [] OTHER ->
            \E k \in RanFor("ls", p) \cup RanFor("install", p) : cmds[k].exit = 0

\* C5: whenever handle returns, its result is true exactly when every item of
\* the list succeeded, whatever hash brew, the install script and brew update
\* did; an empty list gives true.
C5_ResultIffAllSucceeded ==
    (HandleEnded /\ ret.kind = "return") =>
        ret.value = (\A p \in 1..Len(call.data) : ItemSucceeded(p))

C5_Witness ==
    /\ HandleEnded
    /\ ret = Return(TRUE)
    /\ call.directive = "brew"
    /\ Len(call.data) = 2
    /\ Failed("hash") # {}
    /\ Failed("bootstrap") # {}
    /\ \E k \in RanFor("ls", 1) : cmds[k].exit = 0
    /\ \E k \in RanFor("install", 2) : cmds[k].exit = 0

\* C6: handle with a directive can_handle rejects raises the invalid-argument
\* error at once: no subprocess has run, no log line was written, no boolean is
\* returned.
C6_UnsupportedRaisesImmediately ==
    (call.op = "handle" /\ call.directive \notin SupportedDirectives) =>
        /\ pc = "idle"
        /\ ret = Raise("ValueError")
        /\ cmds = <<>>
        /\ log = <<>>

C6_Witness ==
    /\ call.op = "handle"
    /\ call.directive = "cask"
    /\ ~is_macos
    /\ Len(call.data) > 0
    /\ ret = Raise("ValueError")

\* C7: every can_handle call returns true exactly for tap, brew, brewfile, and cask
\* on macOS, and has no side effects: it runs no subprocess, writes no log line
\* and leaves the platform context as it was.
C7_CanHandle ==
    [][ call'.op = "can_handle" =>
          /\ ret' = Return(call'.directive \in SupportedDirectives)
          /\ cmds' = <<>>
          /\ log' = <<>>
          /\ pc' = "idle"
          /\ UNCHANGED platform_vars ]_vars

C7_Witness ==
    /\ call.op = "can_handle"
    /\ call.directive = "cask"
    /\ ~is_macos
    /\ ret = Return(FALSE)

LastLog == log[Len(log)]

\* C8: _tap short-circuits: when brew tap <name> exits non-zero it is the last
\* subprocess of the call, a warning naming the tap is the last log line, the
\* call has returned false, and no tap at a later position was executed.
C8_TapShortCircuits ==
    \A k \in Failed("tap") :
        /\ k = Len(cmds)
        /\ pc = "idle"
        /\ ret = Return(FALSE)
        /\ \A j \in 1..Len(cmds) : cmds[j].pos <= cmds[k].pos
        /\ LastLog.level = "warning"
        /\ LastLog.text[2] = call.data[cmds[k].pos]

C8_Witness ==
    /\ Len(call.data) = 2
    /\ \E k \in Failed("tap") : cmds[k].pos = 1
    /\ ret = Return(FALSE)

\* C9: _install_bundle short-circuits: when brew bundle --file=<path> exits
\* non-zero it is the last subprocess of the call, a warning naming the file is
\* the last log line, the call has returned false, and no later file was tried;
\* when it exits zero and a next file exists, the next file's command is the next
\* subprocess.
C9_BundleShortCircuits ==
    /\ \A k \in Failed("bundle") :
        /\ k = Len(cmds)
        /\ pc = "idle"
        /\ ret = Return(FALSE)
        /\ \A j \in 1..Len(cmds) : cmds[j].pos <= cmds[k].pos
        /\ LastLog.level = "warning"
        /\ LastLog.text[2] = call.data[cmds[k].pos]
    /\ \A k \in Ran("bundle") :
        (cmds[k].exit = 0 /\ cmds[k].pos < Len(call.data)) =>
            \/ (k + 1) \in RanFor("bundle", cmds[k].pos + 1)
            \/ (k = Len(cmds) /\ pc = "bundle" /\ idx = cmds[k].pos + 1)

C9_Witness ==
    /\ Len(call.data) = 3
    /\ \E k \in Ran("bundle") : cmds[k].pos = 1 /\ cmds[k].exit = 0
    /\ \E k \in Failed("bundle") : cmds[k].pos = 2
    /\ ret = Return(FALSE)

\* The shell words of a command after the environment prefix.
Argv(c) == Words(AfterEnv(c.line))

\* C10: the commands have the exact forms listed: brew ls --versions p and
\* brew install p for the brew directive, brew ls --versions --cask p and
\* brew install --cask p for the cask directive (--cask exactly once),
\* brew tap <name> and brew bundle --file=<path>.
C10_ExactCommandForms ==
    \A k \in 1..Len(cmds) :
        LET c == cmds[k]
            item == <<call.data[c.pos]>>
            cask == IF call.directive = "cask" THEN W(<<"--cask">>) ELSE <<>>
        IN  /\ c.what = "ls" =>
                  Argv(c) = W(<<"brew", "ls", "--versions">>) \o cask \o <<item>>
            /\ c.what = "install" =>
                  Argv(c) = W(<<"brew", "install">>) \o cask \o <<item>>
            /\ c.what = "tap" =>
                  Argv(c) = W(<<"brew", "tap">>) \o <<item>>
            /\ c.what = "bundle" =>
                  Argv(c) = W(<<"brew", "bundle">>) \o <<<<"--file=", call.data[c.pos]>>>>

\* C11 as stated: the environment prefix stands in front of the command of every
\* subprocess executed during handle.
C11_EveryCommandHasEnvPrefix ==
    \A k \in 1..Len(cmds) : HasEnvPrefix(cmds[k].line)

\* C11 as amended: the environment prefix stands in front of the command of every
\* subprocess executed during handle except the bootstrap install script, which
\* is run without it.
C11_EnvPrefixExceptBootstrap ==
    \A k \in 1..Len(cmds) : HasEnvPrefix(cmds[k].line) <=> cmds[k].what # "bootstrap"

C11_Witness ==
    /\ HandleEnded
    /\ Ran("hash") # {}
    /\ Ran("bootstrap") # {}
    /\ Ran("update") # {}
    /\ Ran("cask_tap") # {}
    /\ Ran("ls") # {}
    /\ Ran("install") # {}

\* The log lines of a level whose text starts with a fragment.
LogLines(level, first) ==
    {n \in 1..Len(log) : log[n].level = level /\ log[n].text[1] = first}

\* C12: in every handle call the install script runs exactly when hash brew exited
\* non-zero, at most once and right after it; brew update runs exactly when the
\* install script ran and exited zero, at most once and right after it; each
\* failure of the two logs exactly one warning.
C12_BootstrapOnce ==
    call.op = "handle" =>
        LET B == Ran("bootstrap")
            U == Ran("update")
        IN  /\ Cardinality(B) <= 1
            /\ Cardinality(U) <= 1
            /\ \A k \in B : k > 1 /\ (k - 1) \in Failed("hash")
            /\ \A k \in U : k > 1 /\ (k - 1) \in B /\ cmds[k - 1].exit = 0
            /\ Failed("hash") # {} => (B # {} \/ pc = "bootstrap")
            /\ (\E k \in B : cmds[k].exit = 0) => (U # {} \/ pc = "update")
            /\ Cardinality(LogLines("warning", "Brew could not be installed"))
                 = Cardinality(Failed("bootstrap"))
            /\ Cardinality(LogLines("warning", "Brew could not be updated"))
                 = Cardinality(Failed("update"))

C12_Witness ==
    /\ HandleEnded
    /\ ret.kind = "return"
    /\ Failed("hash") # {}
    /\ Ran("bootstrap") # {}
    /\ Failed("update") # {}
    /\ LogLines("warning", "Brew could not be updated") # {}

\* C13: in a handle call with the brew or cask directive the info line
\* "Installing <p>" is logged once for each list position whose version query
\* exited non-zero and for no other position, and when the call returns false
\* the log holds exactly one install-failure warning, naming the package whose
\* install failed.
C13_InstallingLines ==
    (call.op = "handle" /\ call.directive \in {"brew", "cask"}) =>
        /\ \A x \in Names :
             Cardinality({n \in 1..Len(log) : log[n] = Line("info", <<"Installing ", x>>)})
               = Cardinality({k \in Failed("ls") : call.data[cmds[k].pos] = x})
        /\ (HandleEnded /\ ret = Return(FALSE)) =>
             /\ Cardinality(LogLines("warning", "Failed to install [")) = 1
             /\ \A n \in LogLines("warning", "Failed to install [") :
                  \E k \in Failed("install") : log[n].text[2] = call.data[cmds[k].pos]

C13_Witness ==
    /\ HandleEnded
    /\ call.directive = "brew"
    /\ call.data = <<"a", "b">>
    /\ \E k \in RanFor("ls", 1) : cmds[k].exit = 0
    /\ RanFor("install", 1) = {}
    /\ Failed("install") # {}
    /\ ret = Return(FALSE)

\* C14: in a handle call with a supported directive hash brew is the first
\* subprocess; on macOS brew tap homebrew/cask runs exactly once, after the
\* bootstrap check and any bootstrap and before every per-item command; on Linux
\* it never runs.
C14_Preconditions ==
    (call.op = "handle" /\ call.directive \in SupportedDirectives) =>
        /\ Ran("hash") = (IF cmds = <<>> THEN {} ELSE {1})
        /\ HandleEnded => Ran("hash") = {1}
        /\ ~is_macos => Ran("cask_tap") = {}
        /\ is_macos =>
             /\ Cardinality(Ran("cask_tap")) <= 1
             /\ HandleEnded => Cardinality(Ran("cask_tap")) = 1
             /\ (\E k \in 1..Len(cmds) : cmds[k].pos >= 1) => Ran("cask_tap") # {}
             /\ \A t \in Ran("cask_tap") : \A k \in 1..Len(cmds) :
                  /\ cmds[k].what \in {"hash", "bootstrap", "update"} => k < t
                  /\ cmds[k].pos >= 1 => k > t

C14_Witness ==
    /\ HandleEnded
    /\ is_macos
    /\ Ran("update") # {}
    /\ Ran("cask_tap") # {}
    /\ \E k \in 1..Len(cmds) : cmds[k].pos = 2

\* C15: the per-item commands run in the order of the list: positions never
\* decrease along the commands, a command for position p runs only after every
\* earlier item has succeeded, and the positions that have commands are a prefix
\* of the list.
C15_ListOrder ==
    call.op = "handle" =>
        /\ \A j, k \in 1..Len(cmds) : j < k => cmds[j].pos <= cmds[k].pos
        /\ \A k \in 1..Len(cmds) : \A q \in 1..cmds[k].pos :
             /\ \E j \in 1..k : cmds[j].pos = q
             /\ q < cmds[k].pos => ItemSucceeded(q)

C15_Witness ==
    /\ HandleEnded
    /\ Len(call.data) = 3
    /\ ret = Return(FALSE)
    /\ \E k \in 1..Len(cmds) : cmds[k].pos = 3 /\ cmds[k].exit # 0

\* The summary lines of _process_data in the log.
SummaryLines == LogLines("info", "All brew ") \cup LogLines("error", "Some brew ")

\* C17: a handle call with the brew or cask directive that returns has exactly
\* one summary line, the last line of its log: the info line "All brew <type>
\* have been installed" when the result is true, the error line "Some brew <type>
\* were not installed" otherwise, <type> being casks for the cask directive and
\* formulae for brew; a call that has not returned, and every tap or brewfile
\* call, has none.
C17_SummaryLine ==
    call.op = "handle" =>
        LET type == IF call.directive = "cask" THEN "casks" ELSE "formulae"
        IN  IF HandleEnded /\ ret.kind = "return" /\ call.directive \in {"brew", "cask"}
            THEN /\ SummaryLines = {Len(log)}
                 /\ LastLog = IF ret.value
                              THEN Line("info", <<"All brew ", type, " have been installed">>)
                              ELSE Line("error", <<"Some brew ", type, " were not installed">>)
            ELSE SummaryLines = {}

C17_Witness ==
    /\ HandleEnded
    /\ call.directive = "cask"
    /\ ret = Return(FALSE)
    /\ Len(call.data) = 2

\* The current handle call repeats, with the same directive and list, an earlier
\* brew or cask call that returned true.
SecondInstall ==
    /\ world = "brew"
    /\ prev # NoPrev
    /\ call.op = "handle"
    /\ call.directive = prev.call.directive
    /\ call.data = prev.call.data

\* C16: installation is idempotent: with a package manager whose version query
\* exits zero exactly for what was installed, a handle call that repeats a brew
\* or cask call that returned true executes no install subcommand, logs no
\* "Installing" line, and returns true.
C16_Idempotent ==
    SecondInstall =>
        /\ Ran("install") = {}
        /\ LogLines("info", "Installing ") = {}
        /\ HandleEnded => ret = Return(TRUE)

\* A handle call that repeats the arguments of the handle call before it, under
\* the same exit statuses.
Repeated ==
    /\ world = "repeat"
    /\ prev # NoPrev
    /\ call.op = "handle"

\* C18: no state is carried between calls: no step changes the platform
\* context, and a handle call that repeats the platform, directive, list and
\* exit statuses of the handle call before it runs the same commands, writes the
\* same log lines and ends the same way, whatever calls came before the two.
C18_NoStateBetweenCalls ==
    /\ [][UNCHANGED platform_vars]_vars
    /\ [](Repeated =>
            /\ call.directive = prev.call.directive
            /\ call.data = prev.call.data
            /\ Len(cmds) <= Len(prev.cmds)
            /\ cmds = SubSeq(prev.cmds, 1, Len(cmds))
            /\ Len(log) <= Len(prev.log)
            /\ log = SubSeq(prev.log, 1, Len(log))
            /\ HandleEnded => (cmds = prev.cmds /\ log = prev.log /\ ret = prev.ret))

C18_Witness ==
    /\ Repeated
    /\ HandleEnded
    /\ Len(call.data) = 2
    /\ Failed("hash") # {}
    /\ Failed("install") # {}
    /\ ret = Return(FALSE)
    /\ cmds = prev.cmds

====
